---- MODULE Spec2Model ----
(***************************************************************************)
(* Model of market_maker_stats/util.py: the GDAX price fetch               *)
(* (get_gdax_prices, get_gdax_partial, gdax_fetch) with its on-disk cache  *)
(* and per-file lock, run by several tool invocations that share one cache *)
(* directory.                                                              *)
(***************************************************************************)
EXTENDS Integers, Sequences, FiniteSets, TLC

\* ------------------------------------------------------------------ bounds
\* concurrent tool invocations sharing the cache directory
NumProcs == 2
\* consecutive 4-hour batches the callers ask for
NumRanges == 2
\* consecutive upstream failures explored per fetch (all but FetchSpec)
MaxFailures == 1
\* fills in the exchange's history
MaxFills == 2
\* largest give_amount and take_amount of a fill
MaxAmount == 2
\* blocks the fills were mined in
NumBlocks == 2
\* states handed to consolidate_states
MaxStates == 3
\* lines of a price file
MaxLines == 3
\* trades a tool fetched
MaxTrades == 3
\* latest timestamp of a record of a price file and of a window over it
MaxTime == 3
\* one whole unit of a Wad (10^18 in pymaker; three decimals are kept here)
WadUnit == 1000

\* -------------------------------------------------------- program constants
\* util.py:182  can_cache = timestamp_range_end < int(time.time()) - 3600
CacheMargin == 3600
\* util.py:157  datetime.timedelta(hours=4), in seconds
BatchSeconds == 14400
\* util.py:152  replace(hour=0, minute=0, second=0): one calendar day, in seconds
DaySeconds == 86400
\* util.py:165  time.sleep(10)
NetworkPause == 10
\* util.py:170  time.sleep(2)
RateLimitPause == 2
\* util.py:166/171  gdax_fetch retries by calling itself: CPython allows
\* etherdelta_market_maker_chart.py:127  timedelta(hours=3)
EdBatchSeconds == 10800
\* sys.getrecursionlimit() = 1000 nested frames
RecursionLimit == 1000

Procs == 1..NumProcs

\* ------------------------------------------------------------- JSON values
\* What requested.get(url).json() / json.load() produce, as Python sees them.
JNull == [kind |-> "null", items |-> <<>>, keys |-> {}]
JNumber == [kind |-> "number", items |-> <<>>, keys |-> {}]
JArray(items) == [kind |-> "array", items |-> items, keys |-> {}]
JObject(keys) == [kind |-> "object", items |-> <<>>, keys |-> keys]
\* Python's None is what JSON null decodes to
None == JNull

\* requested.get(url).json() raising: connection error, timeout, non-JSON body
NetError == [kind |-> "neterror", items |-> <<>>, keys |-> {}]

\* a candle [ time, low, high, open, close, volume ]
Candle(time, low, high) == <<time, low, high, low, high, 1>>

\* the rate-limit payload {"message": "..."}
RateLimited == JObject({"message"})
\* a JSON object that is neither a candle array nor a rate-limit payload
OtherObject == JObject({"a"})
CandlesA == JArray(<<Candle(60, 1, 3), Candle(BatchSeconds, 2, 3)>>)
CandlesB == JArray(<<Candle(BatchSeconds, 4, 6), Candle(BatchSeconds + 60, 1, 2)>>)

\* every answer the upstream may give to one request
Responses == {NetError, RateLimited, JNull, JNumber, OtherObject, CandlesA, CandlesB}

\* ------------------------------------------------------------ file contents
Absent == [t |-> "absent", v |-> <<>>]
\* bytes that are not JSON (a truncated or damaged file)
Garbage == [t |-> "garbage", v |-> <<>>]

\* a token of JSON text: a bracket, a brace, null, a number or a key
Token(tok, n, key) == [tok |-> tok, n |-> n, key |-> key]
Mark(tok) == Token(tok, 0, "")

RECURSIVE KeysText(_)
\* the keys of an object, one token each
KeysText(keys) ==
    IF keys = {} THEN <<>>
    ELSE LET key == CHOOSE k \in keys : TRUE
         IN  <<Token("key", 0, key)>> \o KeysText(keys \ {key})

RECURSIVE RowsText(_)
\* the inner arrays of an array, each between its brackets
RowsText(items) ==
    IF items = <<>> THEN <<>>
    ELSE <<Mark("[")>> \o [i \in 1..Len(Head(items)) |-> Token("number", Head(items)[i], "")]
         \o <<Mark("]")>> \o RowsText(Tail(items))

\* util.py:210  the JSON text json.dump writes for a value
JsonText(data) ==
    CASE data.kind = "array" -> <<Mark("[")>> \o RowsText(data.items) \o <<Mark("]")>>
      [] data.kind = "object" -> <<Mark("{")>> \o KeysText(data.keys) \o <<Mark("}")>>
      [] data.kind = "number" -> <<Token("number", 0, "")>>
      [] OTHER -> <<Mark("null")>>

\* an empty array written in place of the data of :210
JsonDumpCut(data) == [t |-> "json", v |-> <<Mark("[")>> \o <<Mark("]")>>]

\* util.py:210  json.dump(data_from_server, outfile): the JSON text of data
JsonDump(data) == [t |-> "json", v |-> JsonText(data)]

RECURSIVE ParseRows(_)
\* util.py:199  the inner arrays read back from the text between the outer brackets
ParseRows(text) ==
    IF text = <<>> THEN <<>>
    ELSE LET close == CHOOSE j \in 1..Len(text) :
                          text[j].tok = "]" /\ \A k \in 1..(j - 1) : text[k].tok # "]"
         IN  <<[i \in 1..(close - 2) |-> text[i + 1].n]>>
             \o ParseRows(SubSeq(text, close + 1, Len(text)))

\* util.py:199  the value json.load builds from JSON text
JsonParse(text) ==
    CASE text[1].tok = "[" -> JArray(ParseRows(SubSeq(text, 2, Len(text) - 1)))
      [] text[1].tok = "{" -> JObject({text[i].key : i \in 2..(Len(text) - 1)})
      [] text[1].tok = "number" -> JNumber
      [] OTHER -> JNull

\* util.py:199  json.load(infile), for a file that parses
JsonLoad(content) == JsonParse(content.v)

\* json.load raises on bytes that are not JSON
JsonLoadRaises(content) == content.t # "json"

\* ------------------------------------------------------------- file names
DigitChars == <<"0", "1", "2", "3", "4", "5", "6", "7", "8", "9">>

RECURSIVE Digits(_)
\* str(n) for n >= 0, as used by the f-string at util.py:183
Digits(n) ==
    IF n < 10 THEN <<DigitChars[n + 1]>>
    ELSE Digits(n \div 10) \o <<DigitChars[(n % 10) + 1]>>

\* the name of util.py:183 without the range in it
CacheFileNoRange(timestamp_range_start, timestamp_range_end) ==
    <<"gdax_ETH-USD_", "_60.json">>

\* util.py:183  f'gdax_ETH-USD_{timestamp_range_start}_{timestamp_range_end}_60.json'
CacheFile(timestamp_range_start, timestamp_range_end) ==
    <<"gdax_ETH-USD_">> \o Digits(timestamp_range_start) \o <<"_">>
        \o Digits(timestamp_range_end) \o <<"_60.json">>

\* util.py:195, 207  cache_file + ".lock"
LockFile(cache_file) == cache_file \o <<".lock">>

\* the ranges get_gdax_partial is called with: consecutive 4-hour batches
Ranges == {<<i * BatchSeconds, (i + 1) * BatchSeconds>> : i \in 0..(NumRanges - 1)}

CacheFiles == {CacheFile(r[1], r[2]) : r \in Ranges}
LockFiles == {LockFile(f) : f \in CacheFiles}

\* ------------------------------------------------------------------- URLs
\* util.py:185-186, 231-232  datetime.fromtimestamp(ts, pytz.UTC) rendered by
\* iso_8601: the UTC calendar fields of ts (the date as days since the epoch)
iso_8601(ts) ==
    [days |-> ts \div DaySeconds,
     hh |-> (ts % DaySeconds) \div 3600,
     mm |-> (ts % 3600) \div 60,
     ss |-> ts % 60]

\* util.py:187-190
Url(timestamp_range_start, timestamp_range_end) ==
    [start |-> iso_8601(timestamp_range_start),
     end |-> iso_8601(timestamp_range_end),
     granularity |-> 60]

\* etherdelta_market_maker_chart.py:135-141, 161-163  the same request, built
\* by the tool's own iso_8601
EdUrl(timestamp_range_start, timestamp_range_end) ==
    [start |-> iso_8601(timestamp_range_start),
     end |-> iso_8601(timestamp_range_end),
     granularity |-> 60]

NoUrl == [start |-> iso_8601(0), end |-> iso_8601(0), granularity |-> 0]

\* ------------------------------------------------------------ gdax_fetch
\* the test of util.py:168 left out
HasMessageNever(data) == FALSE

\* util.py:168  'message' in data, where it evaluates: a dict is asked for
\* the key; a list of candle arrays holds no string
HasMessage(data) == data.kind = "object" /\ "message" \in data.keys

\* util.py:168  'message' in data raises TypeError when data is None or a
\* number ("argument of type ... is not iterable")
InRaises(data) == data.kind \in {"null", "number"}

\* util.py:166, 171  return gdax_fetch(url): the call made with `retries`
\* gdax_fetch frames already below it fits the interpreter's stack
CanRecurse(retries) == retries + 2 <= RecursionLimit

\* ---------------------------------------------------------------- decoding
\* (low + high) / 2 as an exact fraction <<numerator, denominator>>
Mid(low, high) ==
    IF (low + high) % 2 = 0 THEN <<(low + high) \div 2, 1>> ELSE <<low + high, 2>>

\* util.py:216-220  Price(timestamp=array[0], market_price=(array[1]+array[2])/2, ...)
Price(array) ==
    [timestamp |-> array[1],
     market_price |-> Mid(array[2], array[3]),
     market_price_min |-> array[2],
     market_price_max |-> array[3],
     volume |-> array[6]]

\* util.py:216-220  what list(map(lambda array: Price(...), data)) raises:
\* a number is not iterable; iterating a dict yields its keys, and indexing a
\* one-character key at [1] is out of range; a candle shorter than 6 fields
\* is out of range as well
DecodeError(data) ==
    CASE data.kind = "array" ->
            IF \E i \in 1..Len(data.items) : Len(data.items[i]) < 6
            THEN "IndexError" ELSE "none"
      [] data.kind = "object" -> IF data.keys = {} THEN "none" ELSE "IndexError"
      [] OTHER -> "TypeError"

\* util.py:216-220  the decoded prices, when nothing raises
DecodePrices(data) == [i \in 1..Len(data.items) |-> Price(data.items[i])]

\* etherdelta_market_maker_chart.py:158-159  Price(timestamp=array[0],
\* market_price=array[3]), the open price
EdPrice(array) == [timestamp |-> array[1], market_price |-> <<array[4], 1>>]

\* etherdelta_market_maker_chart.py:158-159  what the map raises: as above,
\* with the candle read up to its fourth field
EdDecodeError(data) ==
    CASE data.kind = "array" ->
            IF \E i \in 1..Len(data.items) : Len(data.items[i]) < 4
            THEN "IndexError" ELSE "none"
      [] data.kind = "object" -> IF data.keys = {} THEN "none" ELSE "IndexError"
      [] OTHER -> "TypeError"

\* etherdelta_market_maker_chart.py:158-159  the decoded prices, when nothing raises
EdDecodePrices(data) == [i \in 1..Len(data.items) |-> EdPrice(data.items[i])]

\* util.py:222  filter(lambda price: start <= price.timestamp <= end, prices)
InRange(price, lo, hi) == lo <= price.timestamp /\ price.timestamp <= hi

\* the filter of util.py:222 with the two ends of the range left out
FilterRangeOpen(prices, lo, hi) ==
    SelectSeq(prices, LAMBDA price : lo < price.timestamp /\ price.timestamp < hi)

FilterRange(prices, lo, hi) == SelectSeq(prices, LAMBDA price : InRange(price, lo, hi))

\* util.py:151-152  midnight of the day of start_timestamp (the process runs in UTC)
gdax_batch_begin(start_timestamp) == start_timestamp - (start_timestamp % DaySeconds)

\* util.py:155-157  four hours later
gdax_batch_end(batch_begin) == batch_begin + BatchSeconds

RECURSIVE InsertByTimestamp(_, _)
\* puts price behind every element whose timestamp is not greater
InsertByTimestamp(price, sorted) ==
    IF sorted = <<>> THEN <<price>>
    ELSE IF sorted[Len(sorted)].timestamp <= price.timestamp THEN Append(sorted, price)
    ELSE Append(InsertByTimestamp(price, SubSeq(sorted, 1, Len(sorted) - 1)),
                sorted[Len(sorted)])

RECURSIVE SortedByTimestamp(_)
\* util.py:148  sorted(prices, key=lambda price: price.timestamp): a stable sort
SortedByTimestamp(prices) ==
    IF prices = <<>> THEN <<>>
    ELSE InsertByTimestamp(prices[Len(prices)],
                           SortedByTimestamp(SubSeq(prices, 1, Len(prices) - 1)))

\* the cutoff of util.py:182 taken inclusively
CanCacheInclusive(timestamp_range_end, time_now) ==
    timestamp_range_end <= time_now - CacheMargin

\* util.py:182  can_cache = timestamp_range_end < int(time.time()) - 3600
CanCache(timestamp_range_end, time_now) == timestamp_range_end < time_now - CacheMargin

\* the test of util.py:203 left out: every read counts as a miss
CacheMissAlways(data) == TRUE

\* util.py:203  if data_from_cache is None
CacheMiss(data) == data = None

\* util.py:215  data = data_from_cache if data_from_cache is not None else data_from_server
ChooseData(from_cache, from_server) == IF from_cache # None THEN from_cache ELSE from_server

\* ------------------------------------------------------------------ state
VARIABLES
    scenario,         \* what the run explores: the ranges and windows asked for, the
                      \* clock values, the upstream's answers, the failures in a row
    now,              \* int(time.time()), shared wall clock
    files,            \* cache file name -> content on disk
    lockHolder,       \* lock file name -> the process inside "with FileLock", 0 if none
    hung,             \* lock file name -> held by a process that never lets go
    pc,               \* where each process is
    window,           \* <<start_timestamp, end_timestamp>> of get_gdax_prices
    timestamp,        \* util.py:140, 145
    prices,           \* util.py:139, 144
    series,           \* the list get_gdax_prices returned
    range,            \* <<timestamp_range_start, timestamp_range_end>> of get_gdax_partial
    can_cache,        \* util.py:182
    url,              \* util.py:187
    data_from_cache,  \* util.py:193
    data_from_server, \* util.py:204
    retries,          \* gdax_fetch frames below the running one
    pause,            \* seconds slept before the running gdax_fetch frame was entered
    lastFail,         \* why that frame was entered: "none", "network", "ratelimit"
    requested,        \* the call made an upstream request
    outcome,          \* "none", "returned" or the exception raised to the caller
    result,           \* the list get_gdax_partial returned
    touched,          \* the call consulted or opened its cache file
    cacheFault,       \* a cache read or write of the call failed
    expected,         \* what the completed writer of the content read returned
    attempt,          \* the call began after a completed cacheable call for its range
    fileWriter,       \* cache file -> the running call that wrote its content, 0 if none
    primed,           \* cache file -> what the completed writer of its content returned
    firstResult,      \* cache file -> what the first completed cacheable call returned
    tool,             \* whose get_gdax_partial the call runs: "util", "chart", "none"
    fetched           \* the batches the running get_gdax_prices of util.py has decoded:
                      \* the range of each and the data it was decoded from

envVars == <<scenario, now, files, lockHolder, hung>>
pricesVars == <<window, timestamp, prices, series>>
callVars == <<pc, range, can_cache, url, data_from_cache, data_from_server,
              retries, pause, lastFail, requested, outcome, result>>
histVars == <<touched, cacheFault, expected, attempt, fileWriter, primed, firstResult, tool,
              fetched>>

\* the tools that work on trades, states and price files
VARIABLES
    past_trade,       \* etherdelta_market_maker_chart.py:79  the fills of the exchange
    trades,           \* etherdelta_market_maker_chart.py:99
    main_pc,          \* where the chart tool's main is: "off", "start", "drawn", "IndexError"
    states,           \* etherdelta_market_maker_chart.py:106  the list handed to consolidate_states
    consolidated,     \* etherdelta_market_maker_chart.py:120  the list it returns
    states_pc,        \* where consolidate_states is: "off", "start", "returned"
    file_lines,       \* util.py:99-100  the lines of the price file
    file_window,      \* util.py:97  <<start_timestamp, end_timestamp>>
    file_prices,      \* util.py:115  the list get_file_prices returns
    file_pc,          \* where get_file_prices is: "off", "start", "returned" or the
                      \* exception it raised
    our_trades,       \* market_maker_pnl.py:57, zrx_market_maker_pnl.py:84,
                      \* zrx_market_maker_trades.py:81  the trades as they were fetched
    handed,           \* the list handed to pnl_text, pnl_chart, text_trades or json_trades
    sort_pc           \* which tool handed it: "off", "start", "pnl", "zrx_pnl", "listing"

chartVars == <<past_trade, trades, main_pc>>
statesVars == <<states, consolidated, states_pc>>
fileVars == <<file_lines, file_window, file_prices, file_pc>>
sortVars == <<our_trades, handed, sort_pc>>
toolVars == <<chartVars, statesVars, fileVars, sortVars>>
gdaxVars == <<envVars, pricesVars, callVars, histVars>>
vars == <<envVars, pricesVars, callVars, histVars, toolVars>>

NoRange == <<0, 0>>
NoResult == [outcome |-> "none", result |-> <<>>]
Returned(list) == [outcome |-> "returned", result |-> list]

\* the clock values around the cacheability cutoff of the ranges rs
Cutoffs(rs) == UNION {{r[2] + CacheMargin, r[2] + CacheMargin + 1} : r \in rs}

\* windows whose batches are the first NumRanges ranges: the last batch
\* begins at or one minute before end_timestamp
Windows ==
    {<<60, (NumRanges - 1) * BatchSeconds>>, <<60, (NumRanges - 1) * BatchSeconds + 60>>}

\* a window of the chart tool whose first batch ends at end_timestamp
EdWindows == {<<60, 60 + EdBatchSeconds>>}

FileOf(p) == CacheFile(range[p][1], range[p][2])
LockOf(p) == LockFile(FileOf(p))

\* filelock.FileLock.acquire(): the lock file is free for the taking
LockFree(lock) == lockHolder[lock] = 0 /\ ~hung[lock]

InitCalls ==
    /\ pc = [p \in Procs |-> "idle"]
    /\ window = [p \in Procs |-> NoRange]
    /\ timestamp = [p \in Procs |-> 0]
    /\ prices = [p \in Procs |-> <<>>]
    /\ series = [p \in Procs |-> <<>>]
    /\ range = [p \in Procs |-> NoRange]
    /\ can_cache = [p \in Procs |-> FALSE]
    /\ url = [p \in Procs |-> NoUrl]
    /\ data_from_cache = [p \in Procs |-> None]
    /\ data_from_server = [p \in Procs |-> None]
    /\ retries = [p \in Procs |-> 0]
    /\ pause = [p \in Procs |-> 0]
    /\ lastFail = [p \in Procs |-> "none"]
    /\ requested = [p \in Procs |-> FALSE]
    /\ outcome = [p \in Procs |-> "none"]
    /\ result = [p \in Procs |-> <<>>]
    /\ touched = [p \in Procs |-> FALSE]
    /\ cacheFault = [p \in Procs |-> FALSE]
    /\ expected = [p \in Procs |-> NoResult]
    /\ attempt = [p \in Procs |-> FALSE]
    /\ tool = [p \in Procs |-> "none"]
    /\ fetched = [p \in Procs |-> <<>>]

InitEnv ==
    /\ files = [f \in CacheFiles |-> Absent]
    /\ lockHolder = [l \in LockFiles |-> 0]
    /\ hung = [l \in LockFiles |-> FALSE]
    /\ fileWriter = [f \in CacheFiles |-> 0]
    /\ primed = [f \in CacheFiles |-> NoResult]
    /\ firstResult = [f \in CacheFiles |-> NoResult]

\* ---------------------------------------------------------------- actions
\* the exception err leaves get_gdax_partial (and get_gdax_prices above it)
Raise(p, err) ==
    /\ pc' = [pc EXCEPT ![p] = "done"]
    /\ outcome' = [outcome EXCEPT ![p] = err]

\* util.py:176-190  get_gdax_partial is entered; cache_folder() (util.py:126-135)
\* re-raises any makedirs error other than EEXIST
EnterPartial(p, r) ==
    /\ range' = [range EXCEPT ![p] = r]
    /\ attempt' = [attempt EXCEPT ![p] = firstResult[CacheFile(r[1], r[2])] # NoResult]
    /\ tool' = [tool EXCEPT ![p] = "util"]
    /\ \E folder \in {"ok", "oserror"} :
         IF folder = "oserror"
         THEN /\ Raise(p, "OSError")
              /\ UNCHANGED <<can_cache, url>>
         ELSE /\ can_cache' = [can_cache EXCEPT ![p] = CanCache(r[2], now)]
              /\ url' = [url EXCEPT ![p] = Url(r[1], r[2])]
              /\ pc' = [pc EXCEPT ![p] = IF CanCache(r[2], now) THEN "lock_read" ELSE "fetch"]
              /\ UNCHANGED outcome
    /\ UNCHANGED <<toolVars, envVars, data_from_cache, data_from_server, retries, pause, lastFail,
                   requested, result, touched, cacheFault, expected,
                   fileWriter, primed, firstResult, fetched>>

\* a tool calls get_gdax_partial for one range
CallPartial(p, r) ==
    /\ pc[p] = "idle"
    /\ EnterPartial(p, r)
    /\ UNCHANGED pricesVars

\* util.py:195, 207  with filelock.FileLock(cache_file + ".lock"): acquire() polls
\* without a timeout until the lock is free
AcquireLock(p) ==
    /\ pc[p] \in {"lock_read", "lock_write"}
    /\ LockFree(LockOf(p))
    /\ lockHolder' = [lockHolder EXCEPT ![LockOf(p)] = p]
    /\ pc' = [pc EXCEPT ![p] = IF pc[p] = "lock_read" THEN "read" ELSE "write"]
    /\ UNCHANGED <<toolVars, scenario, now, files, hung, pricesVars, range, can_cache, url,
                   data_from_cache, data_from_server, retries, pause, lastFail, requested,
                   outcome, result, histVars>>

\* util.py:195, 207  acquire() opens the lock file first; os.open failing
\* (permissions, a directory in its place) is raised through the with statement
LockError(p) ==
    /\ pc[p] \in {"lock_read", "lock_write"}
    /\ Raise(p, "OSError")
    /\ UNCHANGED <<toolVars, envVars, pricesVars, range, can_cache, url,
                   data_from_cache, data_from_server, retries, pause, lastFail, requested,
                   result, histVars>>

\* util.py:196-201  the guarded read: a missing file, an I/O error and bytes
\* that are not JSON all leave data_from_cache at None; the lock is released
ReadCache(p) ==
    /\ pc[p] = "read"
    /\ \E io \in {"ok", "ioerror"} :
         LET content == files[FileOf(p)]
             failed == content.t # "absent" /\ (io = "ioerror" \/ JsonLoadRaises(content))
             loaded == IF content.t = "absent" \/ failed THEN None ELSE JsonLoad(content)
         IN  /\ data_from_cache' = [data_from_cache EXCEPT ![p] = loaded]
             /\ cacheFault' = [cacheFault EXCEPT ![p] =
                                  failed \/ (loaded # None /\ DecodeError(loaded) # "none")]
             /\ expected' = [expected EXCEPT ![p] =
                                IF failed THEN NoResult ELSE primed[FileOf(p)]]
             /\ pc' = [pc EXCEPT ![p] = IF CacheMiss(loaded) THEN "fetch" ELSE "decode"]
    /\ touched' = [touched EXCEPT ![p] = TRUE]
    /\ lockHolder' = [lockHolder EXCEPT ![LockOf(p)] = 0]
    /\ UNCHANGED <<toolVars, scenario, now, files, hung, pricesVars, range, can_cache, url,
                   data_from_server, retries, pause, lastFail, requested, outcome, result,
                   attempt, fileWriter, primed, firstResult, tool, fetched>>

\* util.py:163-166, 169-171  the pause, then return gdax_fetch(url): one more
\* frame, or RecursionError once the stack is full
Retry(p, why, seconds) ==
    IF CanRecurse(retries[p])
    THEN /\ retries' = [retries EXCEPT ![p] = retries[p] + 1]
         /\ pause' = [pause EXCEPT ![p] = seconds]
         /\ lastFail' = [lastFail EXCEPT ![p] = why]
         /\ UNCHANGED <<pc, outcome>>
    ELSE /\ Raise(p, "RecursionError")
         /\ UNCHANGED <<retries, pause, lastFail>>

\* util.py:160-173, 204  one gdax_fetch frame: the request, then the pause and
\* the recursive call, or TypeError from the 'message' test, or the data
Fetch(p) ==
    /\ pc[p] = "fetch"
    /\ \E response \in scenario.upstream :
         /\ (response = NetError \/ HasMessage(response)) => retries[p] < scenario.failCap
         /\ IF response = NetError
            THEN /\ Retry(p, "network", NetworkPause)
                 /\ UNCHANGED data_from_server
            ELSE IF InRaises(response)
            THEN /\ Raise(p, "TypeError")
                 /\ UNCHANGED <<data_from_server, retries, pause, lastFail>>
            ELSE IF HasMessage(response)
            THEN /\ Retry(p, "ratelimit", RateLimitPause)
                 /\ UNCHANGED data_from_server
            ELSE /\ data_from_server' = [data_from_server EXCEPT ![p] = response]
                 /\ pc' = [pc EXCEPT ![p] = IF can_cache[p] THEN "lock_write" ELSE "decode"]
                 \* every gdax_fetch frame returns the data to the one below it
                 /\ retries' = [retries EXCEPT ![p] = 0]
                 /\ pause' = [pause EXCEPT ![p] = 0]
                 /\ lastFail' = [lastFail EXCEPT ![p] = "none"]
                 /\ UNCHANGED outcome
    /\ requested' = [requested EXCEPT ![p] = TRUE]
    /\ UNCHANGED <<toolVars, envVars, pricesVars, range, can_cache, url, data_from_cache, result,
                   histVars>>

\* etherdelta_market_maker_chart.py:134-143  the chart tool's own
\* get_gdax_partial is entered: no cache, the request only
EdEnterPartial(p, r) ==
    /\ pc' = [pc EXCEPT ![p] = "ed_fetch"]
    /\ range' = [range EXCEPT ![p] = r]
    /\ url' = [url EXCEPT ![p] = EdUrl(r[1], r[2])]
    /\ tool' = [tool EXCEPT ![p] = "chart"]
    /\ UNCHANGED <<toolVars, envVars, can_cache, data_from_cache, data_from_server,
                   retries, pause, lastFail, requested, outcome, result,
                   touched, cacheFault, expected, attempt, fileWriter, primed, firstResult,
                   fetched>>

\* the chart tool's get_gdax_partial is called for one range
EdCallPartial(p, r) ==
    /\ pc[p] = "idle"
    /\ EdEnterPartial(p, r)
    /\ UNCHANGED pricesVars

\* etherdelta_market_maker_chart.py:145-159  one frame of it: the request, then
\* the pause and the recursive call, or TypeError from the 'message' test, or
\* the decoded list; its local `data` is kept in data_from_server
EdFetch(p) ==
    /\ pc[p] = "ed_fetch"
    /\ \E response \in scenario.upstream :
         /\ (response = NetError \/ HasMessage(response)) => retries[p] < scenario.failCap
         /\ IF response = NetError
            THEN /\ Retry(p, "network", NetworkPause)
                 /\ UNCHANGED <<data_from_server, result>>
            ELSE IF InRaises(response)
            THEN /\ Raise(p, "TypeError")
                 /\ UNCHANGED <<data_from_server, result, retries, pause, lastFail>>
            ELSE IF HasMessage(response)
            THEN /\ Retry(p, "ratelimit", RateLimitPause)
                 /\ UNCHANGED <<data_from_server, result>>
            ELSE /\ data_from_server' = [data_from_server EXCEPT ![p] = response]
                 /\ IF EdDecodeError(response) # "none"
                    THEN /\ Raise(p, EdDecodeError(response))
                         /\ UNCHANGED result
                    ELSE /\ pc' = [pc EXCEPT ![p] = "done"]
                         /\ outcome' = [outcome EXCEPT ![p] = "returned"]
                         /\ result' = [result EXCEPT ![p] = EdDecodePrices(response)]
                 \* every frame returns the list to the one below it
                 /\ retries' = [retries EXCEPT ![p] = 0]
                 /\ pause' = [pause EXCEPT ![p] = 0]
                 /\ lastFail' = [lastFail EXCEPT ![p] = "none"]
    /\ requested' = [requested EXCEPT ![p] = TRUE]
    /\ UNCHANGED <<toolVars, envVars, pricesVars, range, can_cache, url, data_from_cache, histVars>>

\* util.py:208-212  the guarded write: open(cache_file, 'w') may fail and leave
\* the file as it was, json.dump may fail after the file was truncated; the
\* lock is released
WriteCache(p) ==
    /\ pc[p] = "write"
    /\ \E io \in {"ok", "openfail", "dumpfail"} :
         /\ files' = [files EXCEPT ![FileOf(p)] =
                         CASE io = "ok" -> JsonDump(data_from_server[p])
                           [] io = "openfail" -> files[FileOf(p)]
                           [] io = "dumpfail" -> Garbage]
         /\ fileWriter' = [fileWriter EXCEPT ![FileOf(p)] =
                              CASE io = "ok" -> p
                                [] io = "openfail" -> fileWriter[FileOf(p)]
                                [] io = "dumpfail" -> 0]
         /\ primed' = [primed EXCEPT ![FileOf(p)] =
                          IF io = "openfail" THEN primed[FileOf(p)] ELSE NoResult]
         /\ cacheFault' = [cacheFault EXCEPT ![p] = cacheFault[p] \/ io # "ok"]
    /\ touched' = [touched EXCEPT ![p] = TRUE]
    /\ lockHolder' = [lockHolder EXCEPT ![LockOf(p)] = 0]
    /\ pc' = [pc EXCEPT ![p] = "decode"]
    /\ UNCHANGED <<toolVars, scenario, now, hung, pricesVars, range, can_cache, url, data_from_cache,
                   data_from_server, retries, pause, lastFail, requested, outcome, result,
                   expected, attempt, firstResult, tool, fetched>>

\* util.py:214-222  decode the candles, keep those inside the range, return
Decode(p) ==
    /\ pc[p] = "decode"
    /\ LET data == ChooseData(data_from_cache[p], data_from_server[p])
           err == DecodeError(data)
           list == FilterRange(DecodePrices(data), range[p][1], range[p][2])
           f == FileOf(p)
       IN  /\ IF err # "none"
              THEN /\ Raise(p, err)
                   /\ UNCHANGED <<result, primed, firstResult, fetched>>
              ELSE /\ pc' = [pc EXCEPT ![p] = "done"]
                   /\ outcome' = [outcome EXCEPT ![p] = "returned"]
                   /\ result' = [result EXCEPT ![p] = list]
                   /\ primed' = [primed EXCEPT ![f] =
                                    IF fileWriter[f] = p THEN Returned(list) ELSE primed[f]]
                   /\ firstResult' = [firstResult EXCEPT ![f] =
                                         IF can_cache[p] /\ firstResult[f] = NoResult
                                         THEN Returned(list) ELSE firstResult[f]]
                   /\ fetched' = [fetched EXCEPT ![p] =
                                     IF window[p] # NoRange
                                     THEN Append(fetched[p], [range |-> range[p], data |-> data])
                                     ELSE fetched[p]]
           /\ fileWriter' = [fileWriter EXCEPT ![f] =
                                IF fileWriter[f] = p THEN 0 ELSE fileWriter[f]]
    \* the locals of the call are gone
    /\ data_from_cache' = [data_from_cache EXCEPT ![p] = None]
    /\ data_from_server' = [data_from_server EXCEPT ![p] = None]
    /\ UNCHANGED <<toolVars, envVars, pricesVars, range, can_cache, url,
                   retries, pause, lastFail, requested, touched, cacheFault,
                   expected, attempt, tool>>

\* nothing of a finished get_gdax_partial call is left
ForgetCall(p) ==
    /\ range' = [range EXCEPT ![p] = NoRange]
    /\ can_cache' = [can_cache EXCEPT ![p] = FALSE]
    /\ url' = [url EXCEPT ![p] = NoUrl]
    /\ data_from_cache' = [data_from_cache EXCEPT ![p] = None]
    /\ data_from_server' = [data_from_server EXCEPT ![p] = None]
    /\ retries' = [retries EXCEPT ![p] = 0]
    /\ pause' = [pause EXCEPT ![p] = 0]
    /\ lastFail' = [lastFail EXCEPT ![p] = "none"]
    /\ requested' = [requested EXCEPT ![p] = FALSE]
    /\ outcome' = [outcome EXCEPT ![p] = "none"]
    /\ result' = [result EXCEPT ![p] = <<>>]
    /\ touched' = [touched EXCEPT ![p] = FALSE]
    /\ cacheFault' = [cacheFault EXCEPT ![p] = FALSE]
    /\ expected' = [expected EXCEPT ![p] = NoResult]
    /\ attempt' = [attempt EXCEPT ![p] = FALSE]
    /\ tool' = [tool EXCEPT ![p] = "none"]

\* the caller has its answer (a list or an exception); the process is free
\* for its next call
Reset(p) ==
    /\ \/ pc[p] = "finished"
       \/ pc[p] = "done" /\ (window[p] = NoRange \/ outcome[p] # "returned")
    /\ pc' = [pc EXCEPT ![p] = "idle"]
    /\ window' = [window EXCEPT ![p] = NoRange]
    /\ timestamp' = [timestamp EXCEPT ![p] = 0]
    /\ prices' = [prices EXCEPT ![p] = <<>>]
    /\ series' = [series EXCEPT ![p] = <<>>]
    /\ fetched' = [fetched EXCEPT ![p] = <<>>]
    /\ ForgetCall(p)
    /\ UNCHANGED <<toolVars, envVars, fileWriter, primed, firstResult>>

\* ------------------------------------------------------- get_gdax_prices
\* util.py:138-140  get_gdax_prices is entered
CallPrices(p, w) ==
    /\ pc[p] = "idle"
    /\ pc' = [pc EXCEPT ![p] = "loop"]
    /\ window' = [window EXCEPT ![p] = w]
    /\ timestamp' = [timestamp EXCEPT ![p] = gdax_batch_begin(w[1])]
    /\ prices' = [prices EXCEPT ![p] = <<>>]
    /\ UNCHANGED <<toolVars, envVars, series, range, can_cache, url, data_from_cache,
                   data_from_server, retries, pause, lastFail, requested, outcome, result,
                   histVars>>

\* util.py:141-144  the loop test and the call of get_gdax_partial for the batch
FetchBatch(p) ==
    /\ pc[p] = "loop"
    /\ timestamp[p] <= window[p][2]
    /\ EnterPartial(p, <<timestamp[p], gdax_batch_end(timestamp[p])>>)
    /\ UNCHANGED pricesVars

\* util.py:144-145  the batch is appended and the next one begins where it ended
NextBatch(p) ==
    /\ pc[p] = "done"
    /\ tool[p] = "util"
    /\ window[p] # NoRange
    /\ outcome[p] = "returned"
    /\ prices' = [prices EXCEPT ![p] = prices[p] \o result[p]]
    /\ timestamp' = [timestamp EXCEPT ![p] = range[p][2]]
    /\ pc' = [pc EXCEPT ![p] = "loop"]
    /\ ForgetCall(p)
    /\ UNCHANGED <<toolVars, envVars, window, series, fileWriter, primed, firstResult,
                   fetched>>

\* util.py:141, 147-148  the loop ends; filter to the window, sort, return
ReturnPrices(p) ==
    /\ pc[p] = "loop"
    /\ ~(timestamp[p] <= window[p][2])
    /\ series' = [series EXCEPT ![p] =
                     SortedByTimestamp(FilterRange(prices[p], window[p][1], window[p][2]))]
    /\ pc' = [pc EXCEPT ![p] = "finished"]
    /\ UNCHANGED <<toolVars, envVars, window, timestamp, prices, range, can_cache, url,
                   data_from_cache, data_from_server, retries, pause, lastFail, requested,
                   outcome, result, histVars>>

\* --------------------------------------- the chart tool's get_gdax_prices
\* etherdelta_market_maker_chart.py:127  three hours after the batch begins
\* (no change of the local clock's offset inside the batch)
ed_batch_end(timestamp_range_start) == timestamp_range_start + EdBatchSeconds

\* etherdelta_market_maker_chart.py:122-124  get_gdax_prices is entered; the
\* first batch begins at start_timestamp itself
EdCallPrices(p, w) ==
    /\ pc[p] = "idle"
    /\ pc' = [pc EXCEPT ![p] = "ed_loop"]
    /\ window' = [window EXCEPT ![p] = w]
    /\ timestamp' = [timestamp EXCEPT ![p] = w[1]]
    /\ prices' = [prices EXCEPT ![p] = <<>>]
    /\ UNCHANGED <<toolVars, envVars, series, range, can_cache, url, data_from_cache,
                   data_from_server, retries, pause, lastFail, requested, outcome, result,
                   histVars>>

\* etherdelta_market_maker_chart.py:125-129  the loop test and the call of
\* get_gdax_partial for the batch
EdFetchBatch(p) ==
    /\ pc[p] = "ed_loop"
    /\ timestamp[p] <= window[p][2]
    /\ EdEnterPartial(p, <<timestamp[p], ed_batch_end(timestamp[p])>>)
    /\ UNCHANGED pricesVars

\* etherdelta_market_maker_chart.py:128-130  the batch is filtered to the
\* window and appended; the next one begins where it ended
EdNextBatch(p) ==
    /\ pc[p] = "done"
    /\ tool[p] = "chart"
    /\ window[p] # NoRange
    /\ outcome[p] = "returned"
    /\ prices' = [prices EXCEPT ![p] =
                     prices[p] \o FilterRange(result[p], window[p][1], window[p][2])]
    /\ timestamp' = [timestamp EXCEPT ![p] = range[p][2]]
    /\ pc' = [pc EXCEPT ![p] = "ed_loop"]
    /\ ForgetCall(p)
    /\ UNCHANGED <<toolVars, envVars, window, series, fileWriter, primed, firstResult,
                   fetched>>

\* etherdelta_market_maker_chart.py:125, 132  the loop ends; sort, return
EdReturnPrices(p) ==
    /\ pc[p] = "ed_loop"
    /\ ~(timestamp[p] <= window[p][2])
    /\ series' = [series EXCEPT ![p] = SortedByTimestamp(prices[p])]
    /\ pc' = [pc EXCEPT ![p] = "finished"]
    /\ UNCHANGED <<toolVars, envVars, window, timestamp, prices, range, can_cache, url,
                   data_from_cache, data_from_server, retries, pause, lastFail, requested,
                   outcome, result, histVars>>

\* ------------------------------------------- the chart tool's trades
\* etherdelta_market_maker_chart.py:75  self.market_maker_address, and
\* the other accounts of the exchange
market_maker_address == "market_maker"
Addresses == {market_maker_address, "someone"}

\* etherdelta_market_maker_chart.py:73-74  self.sai_address, self.eth_address,
\* and the other tokens of the exchange
sai_address == "SAI"
eth_address == "ETH"
Tokens == {sai_address, eth_address, "ZRX"}

\* etherdelta_market_maker_chart.py:79  a LogTrade of past_trade, with the
\* timestamp of its block (get_event_timestamp, :103-104)
LogTrades ==
    [maker : Addresses, taker : Addresses, buy_token : Tokens, pay_token : Tokens,
     give_amount : 1..MaxAmount, take_amount : 1..MaxAmount, timestamp : 1..NumBlocks]

PastTrades == UNION {[1..n -> LogTrades] : n \in 0..MaxFills}

\* pymaker.numeric.Wad.__truediv__: fixed-point division, rounded down
WadDiv(a, b) == (a * WadUnit) \div b

\* etherdelta_market_maker_chart.py:47-52
Trade(timestamp_, price, is_buy, is_sell) ==
    [timestamp |-> timestamp_, price |-> price, is_buy |-> is_buy, is_sell |-> is_sell]

\* etherdelta_market_maker_chart.py:83  the filter of `regular` in sell_trades
IsSellRegular(log_trade) ==
    /\ log_trade.maker = market_maker_address
    /\ log_trade.buy_token = sai_address
    /\ log_trade.pay_token = eth_address

\* etherdelta_market_maker_chart.py:82
SellRegularPrice(log_take) == WadDiv(log_take.give_amount, log_take.take_amount)

\* etherdelta_market_maker_chart.py:85  the filter of `matched` in sell_trades
IsSellMatched(log_trade) ==
    /\ log_trade.taker = market_maker_address
    /\ log_trade.buy_token = eth_address
    /\ log_trade.pay_token = sai_address

\* the price of :84 with the amounts the other way round
SellMatchedPriceSwapped(log_take) == WadDiv(log_take.give_amount, log_take.take_amount)

\* etherdelta_market_maker_chart.py:84
SellMatchedPrice(log_take) == WadDiv(log_take.take_amount, log_take.give_amount)

\* etherdelta_market_maker_chart.py:90  the filter of `regular` in buy_trades
IsBuyRegular(log_trade) ==
    /\ log_trade.maker = market_maker_address
    /\ log_trade.buy_token = eth_address
    /\ log_trade.pay_token = sai_address

\* etherdelta_market_maker_chart.py:89
BuyRegularPrice(log_take) == WadDiv(log_take.take_amount, log_take.give_amount)

\* etherdelta_market_maker_chart.py:92  the filter of `matched` in buy_trades
IsBuyMatched(log_trade) ==
    /\ log_trade.taker = market_maker_address
    /\ log_trade.buy_token = sai_address
    /\ log_trade.pay_token = eth_address

\* etherdelta_market_maker_chart.py:91
BuyMatchedPrice(log_take) == WadDiv(log_take.give_amount, log_take.take_amount)

\* etherdelta_market_maker_chart.py:81-86
sell_trades(past) ==
    LET regular == SelectSeq(past, IsSellRegular)
        matched == SelectSeq(past, IsSellMatched)
    IN  [i \in 1..Len(regular) |->
            Trade(regular[i].timestamp, SellRegularPrice(regular[i]), FALSE, TRUE)]
        \o [i \in 1..Len(matched) |->
            Trade(matched[i].timestamp, SellMatchedPrice(matched[i]), FALSE, TRUE)]

\* etherdelta_market_maker_chart.py:88-93
buy_trades(past) ==
    LET regular == SelectSeq(past, IsBuyRegular)
        matched == SelectSeq(past, IsBuyMatched)
    IN  [i \in 1..Len(regular) |->
            Trade(regular[i].timestamp, BuyRegularPrice(regular[i]), TRUE, FALSE)]
        \o [i \in 1..Len(matched) |->
            Trade(matched[i].timestamp, BuyMatchedPrice(matched[i]), TRUE, FALSE)]

\* etherdelta_market_maker_chart.py:99  trades = sell_trades() + buy_trades()
AllTrades(past) == sell_trades(past) \o buy_trades(past)

\* etherdelta_market_maker_chart.py:78-101  main: the trades of the history
\* are collected for the chart (the prices come from get_gdax_prices above)
ChartMain ==
    /\ main_pc = "start"
    /\ past_trade # <<>>
    /\ trades' = AllTrades(past_trade)
    /\ main_pc' = "drawn"
    /\ UNCHANGED <<past_trade, statesVars, fileVars, sortVars, gdaxVars>>

\* etherdelta_market_maker_chart.py:95  past_trade[0] of an empty history
ChartMainFails ==
    /\ main_pc = "start"
    /\ past_trade = <<>>
    /\ main_pc' = "IndexError"
    /\ UNCHANGED <<past_trade, trades, statesVars, fileVars, sortVars, gdaxVars>>

\* ------------------------------------------------- consolidate_states
\* a field of a state that holds a value
Known(value) == [kind |-> "value", v |-> value]

\* etherdelta_market_maker_chart.py:108  last_order_book = []
EmptyBook == Known(<<>>)

\* the order books and market prices a state may carry; None where it has none
OrderBooks == {None, EmptyBook, Known(<<"order">>)}
MarketPrices == {None, Known(1), Known(2)}

StateLists ==
    UNION {[1..n -> [order_book : OrderBooks, market_price : MarketPrices]] :
              n \in 0..MaxStates}

RECURSIVE consolidate_from(_, _, _)
\* etherdelta_market_maker_chart.py:109-118  the loop from one state on, with
\* the values the states before it left behind
consolidate_from(rest, last_order_book, last_market_price) ==
    IF rest = <<>> THEN <<>>
    ELSE LET state == Head(rest)
             order_book == IF state.order_book = None
                           THEN last_order_book ELSE state.order_book
             market_price == IF state.market_price = None
                             THEN last_market_price ELSE state.market_price
         IN  <<[order_book |-> order_book, market_price |-> market_price]>>
             \o consolidate_from(Tail(rest), order_book, market_price)

\* etherdelta_market_maker_chart.py:106-120
consolidate_states(list) == consolidate_from(list, EmptyBook, None)

\* etherdelta_market_maker_chart.py:106-120  consolidate_states runs; `states`
\* keeps what the list held when it was handed over
Consolidate ==
    /\ states_pc = "start"
    /\ consolidated' = consolidate_states(states)
    /\ states_pc' = "returned"
    /\ UNCHANGED <<states, chartVars, fileVars, sortVars, gdaxVars>>

\* ---------------------------------------------------- get_file_prices
\* a line of the file: bytes that decode to text or not; text that is JSON
\* or not; JSON that is an object or not; the object's keys; its timestamp,
\* a number or a string
FileLine(bytes, json_kind, keys, timestamp_kind, timestamp_, price) ==
    [bytes |-> bytes, json_kind |-> json_kind, keys |-> keys,
     timestamp_kind |-> timestamp_kind, timestamp |-> timestamp_, price |-> price]

RecordLine(timestamp_) ==
    FileLine("text", "object", {"timestamp", "price"}, "number", timestamp_, 7)

FileLines ==
    {RecordLine(t) : t \in 1..MaxTime}
    \cup {FileLine("text", "object", {"price"}, "number", 0, 7),
          FileLine("text", "object", {"timestamp"}, "number", 1, 0),
          FileLine("text", "object", {"timestamp", "price"}, "string", 0, 7),
          FileLine("text", "number", {}, "number", 0, 0),
          FileLine("text", "invalid", {}, "number", 0, 0),
          FileLine("undecodable", "invalid", {}, "number", 0, 0)}

FileContents == UNION {[1..n -> FileLines] : n \in 0..MaxLines}
FileWindows == {<<a, b>> : a \in 1..MaxTime, b \in 1..MaxTime}

\* util.py:100  for line in file: the text layer decodes the bytes of the
\* file strictly, outside the try
IterationRaises(lines) == \E k \in DOMAIN lines : lines[k].bytes = "undecodable"

\* util.py:102-106  what the body of the try raises for a line: json.loads
\* on text that is no JSON, record['timestamp'] on a value that is no
\* object or lacks the key, record['price'] likewise, and the comparison
\* of a timestamp that is no number
LineRaises(line) ==
    \/ line.json_kind # "object"
    \/ "timestamp" \notin line.keys
    \/ "price" \notin line.keys
    \/ line.timestamp_kind # "number"

\* util.py:101-113  the line adds a price
LineAccepted(line, start_timestamp, end_timestamp) ==
    /\ ~LineRaises(line)
    /\ start_timestamp <= line.timestamp /\ line.timestamp <= end_timestamp

\* util.py:107-111
FilePrice(line) ==
    [timestamp |-> line.timestamp, market_price |-> line.price,
     market_price_min |-> None, market_price_max |-> None, volume |-> None]

\* util.py:97-115  the list returned when the iteration does not raise
get_file_prices(lines, start_timestamp, end_timestamp) ==
    LET kept == SelectSeq(lines, LAMBDA line :
                              LineAccepted(line, start_timestamp, end_timestamp))
    IN  SortedByTimestamp([i \in 1..Len(kept) |-> FilePrice(kept[i])])

\* util.py:97-115  get_file_prices runs
GetFilePrices ==
    /\ file_pc = "start"
    /\ IF IterationRaises(file_lines)
       THEN /\ file_pc' = "UnicodeDecodeError"
            /\ UNCHANGED file_prices
       ELSE /\ file_pc' = "returned"
            /\ file_prices' = get_file_prices(file_lines, file_window[1], file_window[2])
    /\ UNCHANGED <<file_lines, file_window, chartVars, statesVars, sortVars, gdaxVars>>

\* ------------------------------------------- sort_trades, sort_trades_for_pnl
\* the trades a tool fetched: a timestamp and a price each
FetchedTrades ==
    UNION {[1..n -> [timestamp : 1..MaxTime, price : {1, 2}]] : n \in 0..MaxTrades}

RECURSIVE InsertDescending(_, _)
\* puts trade behind every element whose timestamp is not smaller
InsertDescending(trade, sorted) ==
    IF sorted = <<>> THEN <<trade>>
    ELSE IF sorted[Len(sorted)].timestamp >= trade.timestamp THEN Append(sorted, trade)
    ELSE Append(InsertDescending(trade, SubSeq(sorted, 1, Len(sorted) - 1)),
                sorted[Len(sorted)])

RECURSIVE sort_trades(_)
\* util.py:247-248  sorted(trades, key=lambda trade: trade.timestamp, reverse=True):
\* descending, trades of one timestamp in the order they came
sort_trades(list) ==
    IF list = <<>> THEN <<>>
    ELSE InsertDescending(list[Len(list)], sort_trades(SubSeq(list, 1, Len(list) - 1)))

\* the list as it came, not sorted
SortKeepsOrder(list) == list

\* util.py:251-252  sorted(trades, key=lambda trade: trade.timestamp)
sort_trades_for_pnl(list) == SortedByTimestamp(list)

\* market_maker_pnl.py:53-66  main sorts the trades and hands them to
\* pnl_text or pnl_chart
PnlMain ==
    /\ sort_pc = "start"
    /\ handed' = sort_trades_for_pnl(our_trades)
    /\ sort_pc' = "pnl"
    /\ UNCHANGED <<our_trades, chartVars, statesVars, fileVars, gdaxVars>>

\* zrx_market_maker_pnl.py:79-95  likewise
ZrxPnlMain ==
    /\ sort_pc = "start"
    /\ handed' = sort_trades_for_pnl(our_trades)
    /\ sort_pc' = "zrx_pnl"
    /\ UNCHANGED <<our_trades, chartVars, statesVars, fileVars, gdaxVars>>

\* zrx_market_maker_trades.py:79-89  main sorts the trades and hands them to
\* text_trades or json_trades
ZrxTradesMain ==
    /\ sort_pc = "start"
    /\ handed' = sort_trades(our_trades)
    /\ sort_pc' = "listing"
    /\ UNCHANGED <<our_trades, chartVars, statesVars, fileVars, gdaxVars>>

\* no tool of this section runs
InitTools ==
    /\ past_trade = <<>>
    /\ trades = <<>>
    /\ main_pc = "off"
    /\ states = <<>>
    /\ consolidated = <<>>
    /\ states_pc = "off"
    /\ file_lines = <<>>
    /\ file_window = <<0, 0>>
    /\ file_prices = <<>>
    /\ file_pc = "off"
    /\ our_trades = <<>>
    /\ handed = <<>>
    /\ sort_pc = "off"

\* ------------------------------------------------------------ environment
\* time passes
Tick ==
    /\ \E t \in scenario.clock : t > now /\ now' = t
    /\ UNCHANGED <<toolVars, scenario, files, lockHolder, hung, pricesVars, callVars, histVars>>

\* a process outside the model takes a lock file and stops for good while it
\* holds it
Hang(lock) ==
    /\ LockFree(lock)
    /\ hung' = [hung EXCEPT ![lock] = TRUE]
    /\ UNCHANGED <<toolVars, scenario, now, files, lockHolder, pricesVars, callVars, histVars>>

\* the steps of get_gdax_partial after it was entered
PartialStep(p) ==
    \/ AcquireLock(p)
    \/ LockError(p)
    \/ ReadCache(p)
    \/ Fetch(p)
    \/ WriteCache(p)
    \/ Decode(p)

\* ---------------------------------------------------------- specifications
\* Spec: the invocations call get_gdax_partial, of util.py or of the chart
\* tool, for one range, against every answer of the upstream and every
\* failure of the disk
Init ==
    /\ scenario = [asked |-> {<<0, BatchSeconds>>}, windows |-> {},
                   clock |-> Cutoffs({<<0, BatchSeconds>>}),
                   upstream |-> Responses, failCap |-> MaxFailures]
    /\ now \in scenario.clock
    /\ InitEnv
    /\ InitCalls
    /\ InitTools

Next ==
    \/ \E p \in Procs :
         \/ \E r \in scenario.asked : CallPartial(p, r)
         \/ PartialStep(p)
         \/ \E r \in scenario.asked : EdCallPartial(p, r)
         \/ EdFetch(p)
         \/ Reset(p)
    \/ Tick

Spec == Init /\ [][Next]_vars

\* the steps a running process takes by itself
Progress(p) ==
    \/ AcquireLock(p)
    \/ ReadCache(p)
    \/ Fetch(p)
    \/ WriteCache(p)
    \/ Decode(p)

\* LockSpec: the invocations call get_gdax_partial for every range, all of
\* them cacheable, while processes outside the model may stop with a lock
\* in hand. A process that can take a step takes one in the end; nothing
\* makes a caller call, a lock file fail or an outside process appear.
LockInit ==
    /\ scenario = [asked |-> Ranges, windows |-> {},
                   clock |-> {NumRanges * BatchSeconds + CacheMargin + 1},
                   upstream |-> {NetError, CandlesA}, failCap |-> MaxFailures]
    /\ now \in scenario.clock
    /\ InitEnv
    /\ InitCalls
    /\ InitTools

LockNext ==
    \/ \E p \in Procs :
         \/ \E r \in scenario.asked : CallPartial(p, r)
         \/ PartialStep(p)
         \/ Reset(p)
    \/ \E lock \in LockFiles : Hang(lock)

LockSpec == LockInit /\ [][LockNext]_vars /\ \A p \in Procs : WF_vars(Progress(p))

\* the one process of the sequential specifications
Main == CHOOSE p \in Procs : \A q \in Procs : p <= q

\* FetchSpec: one invocation fetches a range that is not cacheable, with
\* either get_gdax_partial, from an
\* upstream that may fail any number of times in a row
FetchInit ==
    /\ scenario = [asked |-> {<<0, BatchSeconds>>}, windows |-> {},
                   clock |-> {BatchSeconds + CacheMargin},
                   upstream |-> Responses, failCap |-> RecursionLimit]
    /\ now \in scenario.clock
    /\ InitEnv
    /\ InitCalls
    /\ InitTools

FetchNext ==
    \/ \E r \in scenario.asked : CallPartial(Main, r)
    \/ Fetch(Main)
    \/ Decode(Main)
    \/ \E r \in scenario.asked : EdCallPartial(Main, r)
    \/ EdFetch(Main)
    \/ Reset(Main)

FetchSpec == FetchInit /\ [][FetchNext]_vars

\* PricesSpec: one invocation runs get_gdax_prices, of util.py or of the
\* chart tool, over a window of several batches
PricesInit ==
    /\ scenario = [asked |-> {}, windows |-> Windows \cup EdWindows,
                   clock |-> Cutoffs(Ranges),
                   upstream |-> Responses, failCap |-> MaxFailures]
    /\ now \in scenario.clock
    /\ InitEnv
    /\ InitCalls
    /\ InitTools

PricesNext ==
    \/ \E w \in scenario.windows : CallPrices(Main, w)
    \/ FetchBatch(Main)
    \/ PartialStep(Main)
    \/ NextBatch(Main)
    \/ ReturnPrices(Main)
    \/ \E w \in scenario.windows : EdCallPrices(Main, w)
    \/ EdFetchBatch(Main)
    \/ EdFetch(Main)
    \/ EdNextBatch(Main)
    \/ EdReturnPrices(Main)
    \/ Reset(Main)
    \/ Tick

PricesSpec == PricesInit /\ [][PricesNext]_vars

\* TradesSpec: the chart tool's main runs on every history of up to MaxFills
\* fills
TradesInit ==
    /\ scenario = [asked |-> {}, windows |-> {}, clock |-> {0},
                   upstream |-> {}, failCap |-> 0]
    /\ now \in scenario.clock
    /\ InitEnv
    /\ InitCalls
    /\ past_trade \in PastTrades
    /\ trades = <<>>
    /\ main_pc = "start"
    /\ states = <<>>
    /\ consolidated = <<>>
    /\ states_pc = "off"
    /\ file_lines = <<>>
    /\ file_window = <<0, 0>>
    /\ file_prices = <<>>
    /\ file_pc = "off"
    /\ our_trades = <<>>
    /\ handed = <<>>
    /\ sort_pc = "off"

TradesNext ==
    \/ ChartMain
    \/ ChartMainFails

TradesSpec == TradesInit /\ [][TradesNext]_vars

\* StatesSpec: consolidate_states runs on every list of up to MaxStates states
StatesInit ==
    /\ scenario = [asked |-> {}, windows |-> {}, clock |-> {0},
                   upstream |-> {}, failCap |-> 0]
    /\ now \in scenario.clock
    /\ InitEnv
    /\ InitCalls
    /\ past_trade = <<>>
    /\ trades = <<>>
    /\ main_pc = "off"
    /\ states \in StateLists
    /\ consolidated = <<>>
    /\ states_pc = "start"
    /\ file_lines = <<>>
    /\ file_window = <<0, 0>>
    /\ file_prices = <<>>
    /\ file_pc = "off"
    /\ our_trades = <<>>
    /\ handed = <<>>
    /\ sort_pc = "off"

StatesNext == Consolidate

StatesSpec == StatesInit /\ [][StatesNext]_vars

\* FileSpec: get_file_prices runs on every file of up to MaxLines lines and
\* every window
FileInit ==
    /\ scenario = [asked |-> {}, windows |-> {}, clock |-> {0},
                   upstream |-> {}, failCap |-> 0]
    /\ now \in scenario.clock
    /\ InitEnv
    /\ InitCalls
    /\ past_trade = <<>>
    /\ trades = <<>>
    /\ main_pc = "off"
    /\ states = <<>>
    /\ consolidated = <<>>
    /\ states_pc = "off"
    /\ file_lines \in FileContents
    /\ file_window \in FileWindows
    /\ file_prices = <<>>
    /\ file_pc = "start"
    /\ our_trades = <<>>
    /\ handed = <<>>
    /\ sort_pc = "off"

FileNext == GetFilePrices

FileSpec == FileInit /\ [][FileNext]_vars

\* SortSpec: a PnL tool or the trade-listing tool runs on every list of up to
\* MaxTrades trades
SortInit ==
    /\ scenario = [asked |-> {}, windows |-> {}, clock |-> {0},
                   upstream |-> {}, failCap |-> 0]
    /\ now \in scenario.clock
    /\ InitEnv
    /\ InitCalls
    /\ past_trade = <<>>
    /\ trades = <<>>
    /\ main_pc = "off"
    /\ states = <<>>
    /\ consolidated = <<>>
    /\ states_pc = "off"
    /\ file_lines = <<>>
    /\ file_window = <<0, 0>>
    /\ file_prices = <<>>
    /\ file_pc = "off"
    /\ our_trades \in FetchedTrades
    /\ handed = <<>>
    /\ sort_pc = "start"

SortNext ==
    \/ PnlMain
    \/ ZrxPnlMain
    \/ ZrxTradesMain

SortSpec == SortInit /\ [][SortNext]_vars

\* ------------------------------------------------------------------ claims
\* C1: the series get_gdax_prices returns is strictly ascending by
\* timestamp, so no two of its points share a timestamp.
C1_StrictlyAscending ==
    \A p \in Procs :
        pc[p] = "finished" =>
            \A i \in 1..(Len(series[p]) - 1) :
                series[p][i].timestamp < series[p][i + 1].timestamp

\* C2, as claimed: cache transparency. A call for a range that began after a
\* completed cacheable call for that range makes no upstream request and
\* returns the sequence that call returned.
C2_CacheTransparency ==
    \A p \in Procs :
        attempt[p] =>
            /\ ~requested[p]
            /\ (pc[p] = "done" /\ outcome[p] = "returned") =>
                   result[p] = firstResult[FileOf(p)].result

\* C2, amended: a call that reads back, without a read failure, the content
\* a completed call wrote to the cache file makes no upstream request and
\* returns what that call returned.
C2_ReadBackTransparency ==
    \A p \in Procs :
        expected[p] # NoResult =>
            /\ ~requested[p]
            /\ pc[p] = "done" =>
                   /\ outcome[p] = expected[p].outcome
                   /\ result[p] = expected[p].result

\* a call has answered from the content a completed call wrote
C2_Witness ==
    \E p \in Procs :
        /\ pc[p] = "done"
        /\ expected[p] # NoResult
        /\ result[p] # <<>>
        /\ ~requested[p]

\* C3: a cache failure is never fatal. Whenever the cache read of a call
\* failed or gave a payload that is no candle array, or its cache write
\* failed, the call goes on as on a miss: the upstream is fetched and its
\* answer is what is decoded.
C3_CacheFailureIsMiss ==
    \A p \in Procs :
        cacheFault[p] =>
            /\ pc[p] = "decode" =>
                   data_from_cache[p] = None /\ data_from_server[p] # None
            /\ pc[p] = "done" => requested[p]

AtLock(p) == pc[p] \in {"lock_read", "lock_write"}

\* C4: a process that cannot acquire the lock does not block for ever. A
\* process waiting at the lock leaves the wait in the end.
C4_LockNeverBlocks == \A p \in Procs : AtLock(p) ~> ~AtLock(p)

\* the call is between its cache read and the end of its cache write
InReadModifyWrite(p) == can_cache[p] /\ pc[p] \in {"fetch", "lock_write", "write"}

\* C5: the read-modify-write sequence of a key is one critical section. No
\* two processes are between their cache read and their cache write of the
\* same range at once.
C5_OneCriticalSection ==
    \A p, q \in Procs :
        (p # q /\ range[p] = range[q] /\ InReadModifyWrite(p)) => ~InReadModifyWrite(q)

\* C6: processes working on different ranges never wait on each other. The
\* lock a process waits for or holds is not the lock of a process with
\* another range.
C6_DisjointRangesNeverWait ==
    \A p, q \in Procs :
        (p # q /\ range[p] # NoRange /\ range[q] # NoRange /\ range[p] # range[q]) =>
            /\ LockOf(p) # LockOf(q)
            /\ AtLock(p) => lockHolder[LockOf(p)] # q

\* two processes are inside the locks of two ranges at once
C6_Witness ==
    \E p, q \in Procs :
        /\ range[p] # range[q]
        /\ pc[p] \in {"read", "write"}
        /\ pc[q] \in {"read", "write"}

\* C7: retry policy. A network failure is followed by a pause of 10 seconds,
\* a rate-limit payload by a pause of 2 seconds, both by a retry of the same
\* URL; no payload with a 'message' field is handed to the decoder or
\* written to the cache.
C7_RetryPolicy ==
    /\ \A p \in Procs :
         /\ lastFail[p] = "network" => pause[p] = NetworkPause
         /\ lastFail[p] = "ratelimit" => pause[p] = RateLimitPause
         /\ retries[p] > 0 =>
                /\ lastFail[p] # "none"
                /\ pc[p] = "fetch" => url[p] = Url(range[p][1], range[p][2])
                /\ pc[p] = "ed_fetch" => url[p] = EdUrl(range[p][1], range[p][2])
         /\ "message" \notin data_from_server[p].keys
    /\ \A f \in CacheFiles : files[f].t = "json" => "message" \notin JsonLoad(files[f]).keys

\* gdax_fetch is retrying after a rate-limit payload while the chart tool's
\* fetch is retrying after a network failure
C7_Witness ==
    \E p, q \in Procs :
        /\ pc[p] = "fetch" /\ retries[p] > 0 /\ lastFail[p] = "ratelimit"
        /\ pc[q] = "ed_fetch" /\ retries[q] > 0 /\ lastFail[q] = "network"

\* C8: there is no maximum retry count. However many upstream failures come
\* in a row, gdax_fetch does not give up with an error of its own.
C8_NoRetryLimit == \A p \in Procs : outcome[p] # "RecursionError"

\* C9: no upstream answer makes get_gdax_partial raise. A call that asked
\* the upstream ends with a returned list.
C9_UpstreamNeverRaises ==
    \A p \in Procs :
        (tool[p] = "util" /\ pc[p] = "done" /\ requested[p]) =>
            outcome[p] \notin {"TypeError", "IndexError", "RecursionError"}

\* what C10 says of every state: only a cacheable call is at the lock or the
\* file, and a call that is not cacheable returns upstream data
C10_State ==
    \A p \in Procs :
        /\ (touched[p] \/ pc[p] \in {"lock_read", "read", "lock_write", "write"}) =>
               can_cache[p]
        /\ (tool[p] = "util" /\ pc[p] = "done" /\ outcome[p] = "returned" /\ ~can_cache[p]) =>
               requested[p]

\* what C10 says of every step: a call is cacheable exactly when its range
\* ended more than 3600 seconds before the clock at its entry, and then
\* goes to the cache first; a file changes only under a cacheable call
C10_Step ==
    /\ \A p \in Procs :
         (pc[p] \in {"idle", "loop"} /\ pc'[p] \in {"lock_read", "fetch"}) =>
             /\ can_cache'[p] = (range'[p][2] < now - 3600)
             /\ pc'[p] = "lock_read" <=> can_cache'[p]
    /\ \A f \in CacheFiles :
         files'[f] # files[f] =>
             \E p \in Procs : FileOf(p) = f /\ can_cache[p] /\ pc[p] = "write"

\* C10: cacheability rule. The cache file is read or written only for a
\* range with range_end < now - 3600 at the time of the call; otherwise the
\* cache is left alone and the upstream is queried.
C10_CacheabilityRule == [] C10_State /\ [][C10_Step]_vars

\* a call whose range ended exactly 3600 seconds before it began has
\* returned upstream data without going near the cache
C10_Witness ==
    \E p \in Procs :
        /\ tool[p] = "util"
        /\ pc[p] = "done"
        /\ outcome[p] = "returned"
        /\ range[p][2] = now - CacheMargin
        /\ requested[p]
        /\ ~touched[p]

\* what C11 says of every step, already when no cache read or write of a
\* running call fails: a cache file that holds a written payload keeps its
\* content
C11_Step ==
    (\A p \in Procs : ~cacheFault[p] /\ ~cacheFault'[p]) =>
        \A f \in CacheFiles : files[f].t = "json" => files'[f] = files[f]

\* C11: a cache entry is created once and is read-only thereafter. Once the
\* cache file of a key holds a payload, no step of any call changes it.
C11_WrittenOnce == [][C11_Step]_vars

\* C12: the batch loop stops as soon as a batch's end reaches or exceeds
\* end_timestamp. No batch that get_gdax_prices fetches begins at or after
\* end_timestamp.
C12_NoBatchAtEnd ==
    \A p \in Procs :
        (window[p] # NoRange /\ range[p] # NoRange) => range[p][1] < window[p][2]

\* the same exchange seen from the other side: maker and taker, the two
\* tokens and the two amounts change places
Mirror(log_trade) ==
    [maker |-> log_trade.taker, taker |-> log_trade.maker,
     buy_token |-> log_trade.pay_token, pay_token |-> log_trade.buy_token,
     give_amount |-> log_trade.take_amount, take_amount |-> log_trade.give_amount,
     timestamp |-> log_trade.timestamp]

\* direction flags and price of the trades of a list
Kinds(list) ==
    {[price |-> list[i].price, is_buy |-> list[i].is_buy, is_sell |-> list[i].is_sell] :
        i \in DOMAIN list}

\* C13: trade direction symmetry. A fill with the market maker as maker and
\* its mirrored fill with the market maker as taker are given the same
\* direction flags and the same price, and the collected trades hold them.
C13_DirectionSymmetry ==
    main_pc = "drawn" =>
        \A i, j \in DOMAIN past_trade :
            (/\ past_trade[i].maker = market_maker_address
             /\ past_trade[j] = Mirror(past_trade[i])) =>
                /\ Kinds(AllTrades(<<past_trade[i]>>)) = Kinds(AllTrades(<<past_trade[j]>>))
                /\ Kinds(AllTrades(<<past_trade[i]>>)) \subseteq Kinds(trades)

\* a maker sell and its mirror, at a price other than one, were both
\* collected as sells at that price
C13_Witness ==
    /\ main_pc = "drawn"
    /\ Len(past_trade) = 2
    /\ IsSellRegular(past_trade[1])
    /\ past_trade[1].taker # market_maker_address
    /\ past_trade[1].give_amount # past_trade[1].take_amount
    /\ past_trade[2] = Mirror(past_trade[1])
    /\ Len(trades) = 2
    /\ trades[1].is_sell /\ trades[2].is_sell
    /\ trades[1].price = trades[2].price

\* the positions before i whose field holds a value
Earlier(field, i) == {k \in 1..(i - 1) : states[k][field] # None}

\* what forward-fill gives position i for a field: its own value, else the
\* value of the nearest earlier state that has one, else None
ForwardFilled(field, i) ==
    IF states[i][field] # None THEN states[i][field]
    ELSE IF Earlier(field, i) = {} THEN None
    ELSE states[CHOOSE k \in Earlier(field, i) : \A m \in Earlier(field, i) : m <= k][field]

\* C14: forward-fill in consolidate_states. In the returned list every state
\* has, for order_book and for market_price, its own value, else the value
\* of the nearest earlier state that has one, else None.
C14_ForwardFill ==
    states_pc = "returned" =>
        /\ Len(consolidated) = Len(states)
        /\ \A i \in DOMAIN states :
               \A field \in {"order_book", "market_price"} :
                   consolidated[i][field] = ForwardFilled(field, i)

\* a line that is a record with a numeric timestamp inside the window and a price
WellFormedInWindow(line) ==
    /\ line.bytes = "text"
    /\ line.json_kind = "object"
    /\ {"timestamp", "price"} \subseteq line.keys
    /\ line.timestamp_kind = "number"
    /\ file_window[1] <= line.timestamp /\ line.timestamp <= file_window[2]

\* the returned list holds exactly the well-formed records of the window,
\* each as often as the file does, in ascending order of timestamp
ExactlyTheRecords ==
    /\ \A i \in 1..(Len(file_prices) - 1) :
           file_prices[i].timestamp <= file_prices[i + 1].timestamp
    /\ \A t \in 0..MaxTime, price \in {0, 7} :
           Cardinality({i \in DOMAIN file_prices :
                           file_prices[i].timestamp = t /\ file_prices[i].market_price = price})
           = Cardinality({k \in DOMAIN file_lines :
                             /\ WellFormedInWindow(file_lines[k])
                             /\ file_lines[k].timestamp = t /\ file_lines[k].price = price})

\* C15: for every file content get_file_prices does not fail, and it
\* returns exactly the well-formed records whose timestamp lies in the
\* window, sorted ascending by timestamp.
C15_FilePrices ==
    file_pc \notin {"off", "start"} => (file_pc = "returned" /\ ExactlyTheRecords)

\* the part of C15 that holds: for a file all of whose lines decode to text
C15_TextFilePrices ==
    (file_pc \notin {"off", "start"} /\ ~IterationRaises(file_lines)) =>
        (file_pc = "returned" /\ ExactlyTheRecords)

\* the handed list holds every trade as often as the fetched list does
HandedIsPermutation ==
    /\ Len(handed) = Len(our_trades)
    /\ \A k \in DOMAIN our_trades :
           Cardinality({i \in DOMAIN handed : handed[i] = our_trades[k]})
           = Cardinality({i \in DOMAIN our_trades : our_trades[i] = our_trades[k]})

\* C16: ordering per consumer. The list a PnL tool hands to the PnL
\* computation is ascending by timestamp, the list the trade-listing tool
\* hands to its output is descending by timestamp, and both are
\* permutations of the trades fetched.
C16_OrderPerConsumer ==
    /\ sort_pc \in {"pnl", "zrx_pnl"} =>
           /\ HandedIsPermutation
           /\ \A i \in 1..(Len(handed) - 1) : handed[i].timestamp <= handed[i + 1].timestamp
    /\ sort_pc = "listing" =>
           /\ HandedIsPermutation
           /\ \A i \in 1..(Len(handed) - 1) : handed[i].timestamp >= handed[i + 1].timestamp

\* a PnL tool was handed, in ascending order, three trades that were fetched
\* in another order, two of them of one timestamp
C16_Witness ==
    /\ sort_pc = "pnl"
    /\ Len(our_trades) = 3
    /\ our_trades[1].timestamp > our_trades[2].timestamp
    /\ our_trades[2].timestamp = our_trades[3].timestamp
    /\ our_trades[2].price # our_trades[3].price
    /\ handed = <<our_trades[2], our_trades[3], our_trades[1]>>

\* what C17 says of every state: what a call holds from the cache is a
\* payload the upstream returned
C17_State ==
    \A p \in Procs :
        (tool[p] = "util" /\ data_from_cache[p] # None) =>
            data_from_cache[p] \in scenario.upstream

\* what C17 says of every step: a cacheable call goes from the fetch to the
\* write, never straight to the decode; a payload that appears in a cache
\* file reads back as the payload the upstream returned to its writer; and
\* what a read takes from the file is what the file's text reads back as
C17_Step ==
    /\ \A p \in Procs :
         /\ (pc[p] = "fetch" /\ can_cache[p] /\ pc'[p] \notin {"fetch", "done"}) =>
                pc'[p] = "lock_write"
         /\ (can_cache[p] /\ pc[p] # "decode" /\ pc'[p] = "decode"
             /\ data_from_server'[p] # None) => pc[p] = "write"
         /\ (pc[p] = "read" /\ data_from_cache'[p] # None) =>
                data_from_cache'[p] = JsonLoad(files[FileOf(p)])
    /\ \A f \in CacheFiles :
         (files'[f] # files[f] /\ files'[f].t = "json") =>
             \E p \in Procs :
                 /\ pc[p] = "write" /\ FileOf(p) = f
                 /\ JsonLoad(files'[f]) = data_from_server[p]

\* C17: on a successful fetch of a cacheable range the raw payload is
\* written verbatim to the cache before it is decoded, and the content read
\* back from the cache equals the payload the upstream returned.
C17_WriteBeforeDecode == [] C17_State /\ [][C17_Step]_vars

\* a call is about to decode candles it read back from the cache, which a
\* completed call had written there
C17_Witness ==
    \E p \in Procs :
        /\ pc[p] = "decode"
        /\ data_from_cache[p] \in {CandlesA, CandlesB}
        /\ expected[p] # NoResult
        /\ ~requested[p]

\* C18: every candle [time, low, high, open, close, volume] decoded by a GDAX
\* fetch becomes a price point with timestamp = time and market price =
\* (low + high) / 2, in every tool that decodes candles: when a call of
\* get_gdax_partial, of util.py or of the chart tool, returns its list, each
\* point of the list comes from a candle of the decoded data with that
\* time, and carries the midpoint of that candle's low and high.
C18_Step ==
    \A p \in Procs :
        (pc[p] \in {"decode", "ed_fetch"} /\ pc'[p] = "done" /\ outcome'[p] = "returned")
        => LET data == IF pc[p] = "decode"
                       THEN ChooseData(data_from_cache[p], data_from_server[p])
                       ELSE data_from_server'[p]
           IN  \A i \in 1..Len(result'[p]) :
                   \E j \in 1..Len(data.items) :
                       /\ result'[p][i].timestamp = data.items[j][1]
                       /\ result'[p][i].market_price =
                              Mid(data.items[j][2], data.items[j][3])

C18_MidpointEverywhere == [][C18_Step]_vars

\* C19: window completeness of get_gdax_prices of util.py. The batches fetched
\* are contiguous (each begins where the previous ended) and the first begins
\* at or before start_timestamp; when the series is returned the last batch
\* ended after end_timestamp, so both ends of the window and every candle
\* time inside it lie in some fetched batch range; every candle that was
\* decoded for a batch, with its time in that batch's range and in the
\* window, appears in the returned series, and no returned point lies outside
\* [start_timestamp, end_timestamp].
Covered(t, batches) ==
    \E i \in 1..Len(batches) : batches[i].range[1] <= t /\ t <= batches[i].range[2]

InWindow(t, w) == w[1] <= t /\ t <= w[2]

C19_State ==
    \A p \in Procs :
        LET batches == fetched[p]
        IN  /\ batches # <<>> => batches[1].range[1] <= window[p][1]
            /\ \A i \in 1..(Len(batches) - 1) :
                   batches[i + 1].range[1] = batches[i].range[2]

C19_Step ==
    \A p \in Procs :
        (pc[p] = "loop" /\ pc'[p] = "finished")
        => LET batches == fetched[p]
               w == window[p]
           IN  /\ batches # <<>>
               /\ batches[Len(batches)].range[2] > w[2]
               /\ Covered(w[1], batches) /\ Covered(w[2], batches)
               /\ \A i \in 1..Len(batches) :
                      \A j \in 1..Len(batches[i].data.items) :
                          LET candle == batches[i].data.items[j]
                          IN  InWindow(candle[1], w)
                              /\ InWindow(candle[1], batches[i].range)
                              => \E k \in 1..Len(series'[p]) :
                                     series'[p][k] = Price(candle)
               /\ \A k \in 1..Len(series'[p]) : InWindow(series'[p][k].timestamp, w)

C19_WindowCompleteness == [] C19_State /\ [][C19_Step]_vars

\* a series was returned from two batches: a candle at the very end of the
\* window was kept and a candle of the last batch, behind the window, was not
C19_Witness ==
    \E p \in Procs :
        /\ pc[p] = "finished"
        /\ Len(fetched[p]) = 2
        /\ \E k \in 1..Len(series[p]) : series[p][k].timestamp = window[p][2]
        /\ \E j \in 1..Len(fetched[p][2].data.items) :
               fetched[p][2].data.items[j][1] > window[p][2]

\* C20: in the chart tool's main every fill produces at most one Trade and
\* every Trade has exactly one of is_buy / is_sell true: no fill, not even one
\* in which the market maker is both maker and taker, is emitted both as a
\* sell and as a buy, and the fills that do not involve the account or the
\* token pair produce no Trade; so there are never more trades than fills
\* that involve the account and the pair.
Involves(log_trade) ==
    /\ market_maker_address \in {log_trade.maker, log_trade.taker}
    /\ {log_trade.buy_token, log_trade.pay_token} = {sai_address, eth_address}

C20_OneTradePerFill ==
    main_pc = "drawn"
    => /\ \A i \in 1..Len(trades) : trades[i].is_buy # trades[i].is_sell
       /\ Len(trades) <= Cardinality({i \in 1..Len(past_trade) : Involves(past_trade[i])})

====
